---- MODULE Spec2Model ----
(***************************************************************************)
(* Warehouse Robot Picker (src/Project.py): the grid, the five search      *)
(* algorithms (A*, BFS, DFS, UCS, DLS), path reconstruction, statistics    *)
(* and the Tk event handlers and timer callbacks that drive them.          *)
(*                                                                         *)
(* Coordinates are <<row, col>>, 0-indexed as in the source.  Python's     *)
(* None is NoPos for a position and <<>> for found_path (None and the      *)
(* empty list are both falsy in "if found_path").                          *)
(***************************************************************************)
EXTENDS Integers, Sequences, FiniteSets, TLC

\* ----------------------------------------------------------------- bounds
\* Largest grid of the search-engine instances (the program builds 25 x 35).
MaxRows == 2
MaxCols == 3
\* Most OBSTACLE cells in a search-engine instance.
MaxObstacles == 2
\* Largest depth limit tried (the spinbox offers 1..100).
MaxLimit == 3

\* The one grid shape of the A*-against-UCS instances, and its obstacles.
WideRows == 3
WideCols == 5
WideObstacles == 1

\* The grid of the application, and the most callbacks pending at a time.
UIRows == 1
UICols == 3
MaxTimers == 1

\* The grid of the application where runs may overlap, and the most
\* callbacks pending there.
RaceRows == 1
RaceCols == 2
MaxPending == 2

\* Largest square grid of the instances without obstacles.
OpenSize == 5

\* Largest grid get_neighbors is called on by itself, and the most cells of
\* it that are not EMPTY.
NbRows == 3
NbCols == 3
MaxMarked == 2

\* ------------------------------------------------------------- enumerations
CellType == {"EMPTY", "OBSTACLE", "START", "GOAL", "PATH", "VISITED",
             "ROBOT", "FRONTIER", "CURRENT"}

Algorithm == {"A*", "BFS", "DFS", "UCS", "DLS"}

NoPos == <<-1, -1>>

VARIABLES
  rows, cols,             \* self.rows, self.cols
  grid,                   \* self.grid: [Cells -> CellType]
  start_pos,              \* self.start_pos (NoPos for None)
  goal_pos,               \* self.goal_pos  (NoPos for None)
  robot_pos,              \* self.robot_pos (NoPos for None)
  path,                   \* self.path
  visited_cells,          \* self.visited_cells
  frontier_cells,         \* self.frontier_cells
  is_running,             \* self.is_running
  stats,                  \* self.stats: algorithm, path_length, nodes_visited, nodes_explored
  animate_visited_index,  \* self.animate_visited_index
  timers,                 \* the callbacks root.after has scheduled, oldest first
  frame,                  \* the local variables of the run_* activation in progress
  pc                      \* where that activation stands

vars == <<rows, cols, grid, start_pos, goal_pos, robot_pos, path, visited_cells,
          frontier_cells, is_running, stats, animate_visited_index, timers,
          frame, pc>>

\* ------------------------------------------------------------------- grid
Cells == (0 .. rows - 1) \X (0 .. cols - 1)

InBounds(p) == 0 <= p[1] /\ p[1] < rows /\ 0 <= p[2] /\ p[2] < cols

\* directions = [(-1, 0), (0, 1), (1, 0), (0, -1)]: up, right, down, left
directions == << <<-1, 0>>, <<0, 1>>, <<1, 0>>, <<0, -1>> >>

Moved(pos, d) == <<pos[1] + d[1], pos[2] + d[2]>>

\* Mutant of get_neighbors: the OBSTACLE test is missing.
get_neighbors_through_walls(pos) ==
  LET cand == [i \in 1 .. 4 |-> Moved(pos, directions[i])]
  IN  SelectSeq(cand, LAMBDA q : InBounds(q))

\* Mutant of get_neighbors: the directions are tried left, down, right, up.
get_neighbors_backwards(pos) ==
  LET cand == [i \in 1 .. 4 |-> Moved(pos, directions[5 - i])]
  IN  SelectSeq(cand, LAMBDA q : InBounds(q) /\ grid[q] # "OBSTACLE")

\* get_neighbors: the in-bounds, non-OBSTACLE cells among the four, in the
\* order of directions.  ("row, col = pos" raises on None: the loops below
\* end the activation there, see raised.)
get_neighbors(pos) ==
  LET cand == [i \in 1 .. 4 |-> Moved(pos, directions[i])]
  IN  SelectSeq(cand, LAMBDA q : InBounds(q) /\ grid[q] # "OBSTACLE")

Abs(x) == IF x < 0 THEN -x ELSE x

\* heuristic: Manhattan distance
heuristic(pos1, pos2) == Abs(pos1[1] - pos2[1]) + Abs(pos1[2] - pos2[2])

Reverse(seq) == [i \in 1 .. Len(seq) |-> seq[Len(seq) + 1 - i]]

\* Mutant of walk_back: "path = []" for "path = [current]".
RECURSIVE walk_back_unseeded(_, _)
walk_back_unseeded(came_from, current) ==
  IF current \in DOMAIN came_from
    THEN <<came_from[current]>> \o walk_back_unseeded(came_from, came_from[current])
    ELSE <<>>

\* "while current in came_from: current = came_from[current]; path.append(current)"
RECURSIVE walk_back(_, _)
walk_back(came_from, current) ==
  IF current \in DOMAIN came_from
    THEN <<current>> \o walk_back(came_from, came_from[current])
    ELSE <<current>>

\* Mutant of reconstruct_path: path.reverse() is missing.
reconstruct_path_unreversed(came_from, current) == walk_back(came_from, current)

\* reconstruct_path: the walk from current back along came_from, reversed.
reconstruct_path(came_from, current) == Reverse(walk_back(came_from, current))

\* dict[key] = value
Put(dict, key, value) ==
  [k \in DOMAIN dict \cup {key} |-> IF k = key THEN value ELSE dict[k]]

EmptyDict == [k \in {} |-> NoPos]

\* ------------------------------------------------------------------ heapq
\* A heap of (priority, (row, col)) tuples.  The entries a run pushes are
\* pairwise distinct (A* never pushes a coordinate that is in the list, UCS
\* pushes a coordinate again only with a strictly smaller cost), and heappop
\* returns the smallest tuple in Python's tuple order, so the heap is the
\* set of its entries.
TupleLess(a, b) ==
  \/ a[1] < b[1]
  \/ a[1] = b[1] /\ a[2][1] < b[2][1]
  \/ a[1] = b[1] /\ a[2][1] = b[2][1] /\ a[2][2] < b[2][2]

HeapMin(heap) == CHOOSE a \in heap : \A b \in heap : a = b \/ TupleLess(a, b)

\* ------------------------------------------------------- the search loops
\* The state of a run_* activation: its local variables (heap for the
\* heapq list open_set, queue, stack, closed for closed_set / visited,
\* came_from, g_score, f_score, found_path, current, depth, depth_limit),
\* the method running (algorithm) and the fields
\* of self its loop updates (visited_cells, frontier_cells, the two
\* counters of stats).
NoFrame ==
  [heap |-> {}, queue |-> <<>>, stack |-> <<>>, closed |-> {},
   came_from |-> EmptyDict, g_score |-> EmptyDict, f_score |-> EmptyDict,
   found_path |-> <<>>, current |-> NoPos, depth |-> 0,
   algorithm |-> "", depth_limit |-> 0, raised |-> FALSE,
   visited_cells |-> {}, frontier_cells |-> {},
   nodes_visited |-> 0, nodes_explored |-> 0,
   neighbors |-> <<>>]

\* The fields of self a run starts from.
SelfFrame ==
  [NoFrame EXCEPT !.visited_cells = visited_cells,
                  !.frontier_cells = frontier_cells,
                  !.nodes_visited = stats.nodes_visited,
                  !.nodes_explored = stats.nodes_explored]

\* --- run_astar
\* heuristic(self.start_pos, self.goal_pos) raises on None (None[0]), after
\* the start was pushed and added to self.frontier_cells.
astar_init ==
  IF start_pos = NoPos \/ goal_pos = NoPos
    THEN [SelfFrame EXCEPT
            !.heap = {<<0, start_pos>>},
            !.frontier_cells = frontier_cells \cup {start_pos},
            !.g_score = Put(EmptyDict, start_pos, 0),
            !.raised = TRUE]
    ELSE [SelfFrame EXCEPT
            !.heap = {<<0, start_pos>>},
            !.frontier_cells = frontier_cells \cup {start_pos},
            !.g_score = Put(EmptyDict, start_pos, 0),
            !.f_score = Put(EmptyDict, start_pos, heuristic(start_pos, goal_pos)),
            !.visited_cells = {},
            !.nodes_visited = 0,
            !.nodes_explored = 0]

\* "if neighbor not in [item[1] for item in open_set]"
InOpenList(heap, pos) == \E e \in heap : e[2] = pos

\* Mutant of astar_neighbor: the test "not in [item[1] for item in open_set]"
\* is missing.
astar_neighbor_repush(st, neighbor) ==
  IF neighbor \in st.closed THEN st
  ELSE
    LET tentative_g_score == st.g_score[st.current] + 1 IN
    IF neighbor \notin DOMAIN st.g_score \/ tentative_g_score < st.g_score[neighbor]
    THEN
      LET f == tentative_g_score + heuristic(neighbor, goal_pos)
      IN  [st EXCEPT !.came_from = Put(st.came_from, neighbor, st.current),
                     !.g_score = Put(st.g_score, neighbor, tentative_g_score),
                     !.f_score = Put(st.f_score, neighbor, f),
                     !.heap = st.heap \cup {<<f, neighbor>>},
                     !.frontier_cells = st.frontier_cells \cup {neighbor},
                     !.nodes_explored = st.nodes_explored + 1]
    ELSE st

\* The body of "for neighbor in self.get_neighbors(current)" for one neighbor.
astar_neighbor(st, neighbor) ==
  IF neighbor \in st.closed THEN st
  ELSE
    LET tentative_g_score == st.g_score[st.current] + 1 IN
    IF neighbor \notin DOMAIN st.g_score \/ tentative_g_score < st.g_score[neighbor]
    THEN
      LET f  == tentative_g_score + heuristic(neighbor, goal_pos)
          s1 == [st EXCEPT !.came_from = Put(st.came_from, neighbor, st.current),
                           !.g_score = Put(st.g_score, neighbor, tentative_g_score),
                           !.f_score = Put(st.f_score, neighbor, f)]
      IN  IF ~InOpenList(st.heap, neighbor)
            THEN [s1 EXCEPT !.heap = st.heap \cup {<<f, neighbor>>},
                            !.frontier_cells = st.frontier_cells \cup {neighbor},
                            !.nodes_explored = st.nodes_explored + 1]
            ELSE s1
    ELSE st

RECURSIVE astar_neighbors(_, _, _)
astar_neighbors(st, neighbors, i) ==
  IF i > Len(neighbors) THEN st
  ELSE astar_neighbors(astar_neighbor(st, neighbors[i]), neighbors, i + 1)

\* One iteration of "while open_set".
astar_step(st) ==
  LET e  == HeapMin(st.heap)
      s1 == [st EXCEPT !.current = e[2],
                       !.heap = st.heap \ {e},
                       !.frontier_cells = st.frontier_cells \ {e[2]}]
  IN  IF s1.current = goal_pos
        THEN [s1 EXCEPT !.found_path = reconstruct_path(s1.came_from, s1.current)]
        ELSE astar_neighbors(
               [s1 EXCEPT !.closed = s1.closed \cup {s1.current},
                          !.visited_cells = s1.visited_cells \cup {s1.current},
                          !.nodes_visited = s1.nodes_visited + 1],
               get_neighbors(s1.current), 1)

\* --- run_bfs
\* Mutant of bfs_init: stats["nodes_visited"] = 1 for 0.
bfs_init_counts_start ==
  [SelfFrame EXCEPT
     !.queue = <<start_pos>>,
     !.frontier_cells = frontier_cells \cup {start_pos},
     !.closed = {start_pos},
     !.nodes_visited = 1,
     !.nodes_explored = 1]

bfs_init ==
  [SelfFrame EXCEPT
     !.queue = <<start_pos>>,
     !.frontier_cells = frontier_cells \cup {start_pos},
     !.closed = {start_pos},
     !.nodes_visited = 0,
     !.nodes_explored = 1]

\* Mutant of bfs_neighbor: came_from[neighbor] = current stands before the
\* test of visited.
bfs_neighbor_always_links(st, neighbor) ==
  IF neighbor \notin st.closed
    THEN [st EXCEPT !.closed = st.closed \cup {neighbor},
                    !.came_from = Put(st.came_from, neighbor, st.current),
                    !.queue = Append(st.queue, neighbor),
                    !.frontier_cells = st.frontier_cells \cup {neighbor},
                    !.nodes_explored = st.nodes_explored + 1]
    ELSE [st EXCEPT !.came_from = Put(st.came_from, neighbor, st.current)]

bfs_neighbor(st, neighbor) ==
  IF neighbor \notin st.closed
    THEN [st EXCEPT !.closed = st.closed \cup {neighbor},
                    !.came_from = Put(st.came_from, neighbor, st.current),
                    !.queue = Append(st.queue, neighbor),
                    !.frontier_cells = st.frontier_cells \cup {neighbor},
                    !.nodes_explored = st.nodes_explored + 1]
    ELSE st

RECURSIVE bfs_neighbors(_, _, _)
bfs_neighbors(st, neighbors, i) ==
  IF i > Len(neighbors) THEN st
  ELSE bfs_neighbors(bfs_neighbor(st, neighbors[i]), neighbors, i + 1)

\* Mutant of bfs_step: queue.pop() for queue.popleft().
bfs_step_lifo(st) ==
  LET last == st.queue[Len(st.queue)]
      s1 == [st EXCEPT !.current = last,
                       !.queue = SubSeq(st.queue, 1, Len(st.queue) - 1),
                       !.frontier_cells = st.frontier_cells \ {last},
                       !.nodes_visited = st.nodes_visited + 1]
  IN  IF s1.current = goal_pos
        THEN [s1 EXCEPT !.found_path = reconstruct_path(s1.came_from, s1.current)]
      ELSE IF s1.current = NoPos THEN [s1 EXCEPT !.raised = TRUE]
      ELSE bfs_neighbors(s1, get_neighbors(s1.current), 1)

\* Mutant of bfs_step: nodes_visited is counted after the goal test.
bfs_step_goal_uncounted(st) ==
  LET s1 == [st EXCEPT !.current = Head(st.queue),
                       !.queue = Tail(st.queue),
                       !.frontier_cells = st.frontier_cells \ {Head(st.queue)}]
      s2 == [s1 EXCEPT !.nodes_visited = s1.nodes_visited + 1]
  IN  IF s1.current = goal_pos
        THEN [s1 EXCEPT !.found_path = reconstruct_path(s1.came_from, s1.current)]
      ELSE IF s1.current = NoPos THEN [s2 EXCEPT !.raised = TRUE]
      ELSE bfs_neighbors(s2, get_neighbors(s1.current), 1)

\* One iteration of "while queue".
bfs_step(st) ==
  LET s1 == [st EXCEPT !.current = Head(st.queue),
                       !.queue = Tail(st.queue),
                       !.frontier_cells = st.frontier_cells \ {Head(st.queue)},
                       !.nodes_visited = st.nodes_visited + 1]
  IN  IF s1.current = goal_pos
        THEN [s1 EXCEPT !.found_path = reconstruct_path(s1.came_from, s1.current)]
      ELSE IF s1.current = NoPos THEN [s1 EXCEPT !.raised = TRUE]
      ELSE bfs_neighbors(s1, get_neighbors(s1.current), 1)

\* --- run_dfs
dfs_init ==
  [SelfFrame EXCEPT
     !.stack = <<start_pos>>,
     !.frontier_cells = frontier_cells \cup {start_pos},
     !.nodes_visited = 0,
     !.nodes_explored = 1]

dfs_neighbor(st, neighbor) ==
  IF neighbor \notin st.closed
    THEN [st EXCEPT !.came_from = Put(st.came_from, neighbor, st.current),
                    !.stack = Append(st.stack, neighbor),
                    !.frontier_cells = st.frontier_cells \cup {neighbor},
                    !.nodes_explored = st.nodes_explored + 1]
    ELSE st

RECURSIVE dfs_neighbors(_, _, _)
dfs_neighbors(st, neighbors, i) ==
  IF i > Len(neighbors) THEN st
  ELSE dfs_neighbors(dfs_neighbor(st, neighbors[i]), neighbors, i + 1)

\* Mutant of dfs_step: stack[-1] for stack.pop().
dfs_step_peek(st) ==
  LET top == st.stack[Len(st.stack)]
      s1  == [st EXCEPT !.current = top,
                        !.frontier_cells = st.frontier_cells \ {top}]
  IN  IF top \in st.closed THEN s1
      ELSE
        LET s2 == [s1 EXCEPT !.closed = s1.closed \cup {top},
                             !.nodes_visited = s1.nodes_visited + 1]
        IN  IF top = goal_pos
              THEN [s2 EXCEPT !.found_path = reconstruct_path(s2.came_from, top)]
            ELSE IF top = NoPos THEN [s2 EXCEPT !.raised = TRUE]
            ELSE dfs_neighbors(s2, Reverse(get_neighbors(top)), 1)

\* One iteration of "while stack"; the top of the stack is its last element.
dfs_step(st) ==
  LET top == st.stack[Len(st.stack)]
      s1  == [st EXCEPT !.current = top,
                        !.stack = SubSeq(st.stack, 1, Len(st.stack) - 1),
                        !.frontier_cells = st.frontier_cells \ {top}]
  IN  IF top \in st.closed THEN s1
      ELSE
        LET s2 == [s1 EXCEPT !.closed = s1.closed \cup {top},
                             !.nodes_visited = s1.nodes_visited + 1]
        IN  IF top = goal_pos
              THEN [s2 EXCEPT !.found_path = reconstruct_path(s2.came_from, top)]
            ELSE IF top = NoPos THEN [s2 EXCEPT !.raised = TRUE]
            ELSE dfs_neighbors(s2, Reverse(get_neighbors(top)), 1)

\* --- run_ucs
ucs_init ==
  [SelfFrame EXCEPT
     !.heap = {<<0, start_pos>>},
     !.frontier_cells = frontier_cells \cup {start_pos},
     !.g_score = Put(EmptyDict, start_pos, 0),
     !.visited_cells = {},
     !.nodes_visited = 0,
     !.nodes_explored = 1]

\* Mutant of ucs_neighbor: the entry is pushed with the cost negated.
ucs_neighbor_negated(st, neighbor) ==
  IF neighbor \in st.visited_cells THEN st
  ELSE
    LET tentative_g_score == st.g_score[st.current] + 1 IN
    IF neighbor \notin DOMAIN st.g_score \/ tentative_g_score < st.g_score[neighbor]
      THEN [st EXCEPT !.came_from = Put(st.came_from, neighbor, st.current),
                      !.g_score = Put(st.g_score, neighbor, tentative_g_score),
                      !.heap = st.heap \cup {<<-tentative_g_score, neighbor>>},
                      !.frontier_cells = st.frontier_cells \cup {neighbor},
                      !.nodes_explored = st.nodes_explored + 1]
      ELSE st

ucs_neighbor(st, neighbor) ==
  IF neighbor \in st.visited_cells THEN st
  ELSE
    LET tentative_g_score == st.g_score[st.current] + 1 IN
    IF neighbor \notin DOMAIN st.g_score \/ tentative_g_score < st.g_score[neighbor]
      THEN [st EXCEPT !.came_from = Put(st.came_from, neighbor, st.current),
                      !.g_score = Put(st.g_score, neighbor, tentative_g_score),
                      !.heap = st.heap \cup {<<tentative_g_score, neighbor>>},
                      !.frontier_cells = st.frontier_cells \cup {neighbor},
                      !.nodes_explored = st.nodes_explored + 1]
      ELSE st

RECURSIVE ucs_neighbors(_, _, _)
ucs_neighbors(st, neighbors, i) ==
  IF i > Len(neighbors) THEN st
  ELSE ucs_neighbors(ucs_neighbor(st, neighbors[i]), neighbors, i + 1)

\* One iteration of "while open_set".
ucs_step(st) ==
  LET e  == HeapMin(st.heap)
      s1 == [st EXCEPT !.current = e[2],
                       !.heap = st.heap \ {e},
                       !.frontier_cells = st.frontier_cells \ {e[2]}]
  IN  IF e[2] \in st.visited_cells THEN s1
      ELSE
        LET s2 == [s1 EXCEPT !.visited_cells = s1.visited_cells \cup {e[2]},
                             !.nodes_visited = s1.nodes_visited + 1]
        IN  IF e[2] = goal_pos
              THEN [s2 EXCEPT !.found_path = reconstruct_path(s2.came_from, e[2])]
            ELSE IF e[2] = NoPos THEN [s2 EXCEPT !.raised = TRUE]
            ELSE ucs_neighbors(s2, get_neighbors(e[2]), 1)

\* --- run_dls: the stack holds (node, depth) pairs
dls_init(depth_limit) ==
  [SelfFrame EXCEPT
     !.depth_limit = depth_limit,
     !.stack = << <<start_pos, 0>> >>,
     !.frontier_cells = frontier_cells \cup {start_pos},
     !.nodes_visited = 0,
     !.nodes_explored = 1]

\* Mutant of dls_neighbor: stack.append((neighbor, depth)) for depth + 1.
dls_neighbor_same_depth(st, neighbor) ==
  IF neighbor \notin st.closed
    THEN [st EXCEPT !.came_from = Put(st.came_from, neighbor, st.current),
                    !.stack = Append(st.stack, <<neighbor, st.depth>>),
                    !.frontier_cells = st.frontier_cells \cup {neighbor},
                    !.nodes_explored = st.nodes_explored + 1]
    ELSE st

dls_neighbor(st, neighbor) ==
  IF neighbor \notin st.closed
    THEN [st EXCEPT !.came_from = Put(st.came_from, neighbor, st.current),
                    !.stack = Append(st.stack, <<neighbor, st.depth + 1>>),
                    !.frontier_cells = st.frontier_cells \cup {neighbor},
                    !.nodes_explored = st.nodes_explored + 1]
    ELSE st

RECURSIVE dls_neighbors(_, _, _)
dls_neighbors(st, neighbors, i) ==
  IF i > Len(neighbors) THEN st
  ELSE dls_neighbors(dls_neighbor(st, neighbors[i]), neighbors, i + 1)

\* Mutant of dls_step: "for neighbor in neighbors" for "in reversed(neighbors)".
dls_step_unreversed(st) ==
  LET top == st.stack[Len(st.stack)]
      s1  == [st EXCEPT !.current = top[1],
                        !.depth = top[2],
                        !.stack = SubSeq(st.stack, 1, Len(st.stack) - 1),
                        !.frontier_cells = st.frontier_cells \ {top[1]}]
  IN  IF top[1] \in st.closed THEN s1
      ELSE
        LET s2 == [s1 EXCEPT !.closed = s1.closed \cup {top[1]},
                             !.nodes_visited = s1.nodes_visited + 1]
        IN  IF top[1] = goal_pos
              THEN [s2 EXCEPT !.found_path = reconstruct_path(s2.came_from, top[1])]
            ELSE IF top[2] >= st.depth_limit THEN s2
            ELSE IF top[1] = NoPos THEN [s2 EXCEPT !.raised = TRUE]
            ELSE dls_neighbors(s2, get_neighbors(top[1]), 1)

\* Mutant of dls_step: "depth > depth_limit" for "depth >= depth_limit".
dls_step_one_deeper(st) ==
  LET top == st.stack[Len(st.stack)]
      s1  == [st EXCEPT !.current = top[1],
                        !.depth = top[2],
                        !.stack = SubSeq(st.stack, 1, Len(st.stack) - 1),
                        !.frontier_cells = st.frontier_cells \ {top[1]}]
  IN  IF top[1] \in st.closed THEN s1
      ELSE
        LET s2 == [s1 EXCEPT !.closed = s1.closed \cup {top[1]},
                             !.nodes_visited = s1.nodes_visited + 1]
        IN  IF top[1] = goal_pos
              THEN [s2 EXCEPT !.found_path = reconstruct_path(s2.came_from, top[1])]
            ELSE IF top[2] > st.depth_limit THEN s2
            ELSE IF top[1] = NoPos THEN [s2 EXCEPT !.raised = TRUE]
            ELSE dls_neighbors(s2, Reverse(get_neighbors(top[1])), 1)

\* One iteration of "while stack".
dls_step(st) ==
  LET top == st.stack[Len(st.stack)]
      s1  == [st EXCEPT !.current = top[1],
                        !.depth = top[2],
                        !.stack = SubSeq(st.stack, 1, Len(st.stack) - 1),
                        !.frontier_cells = st.frontier_cells \ {top[1]}]
  IN  IF top[1] \in st.closed THEN s1
      ELSE
        LET s2 == [s1 EXCEPT !.closed = s1.closed \cup {top[1]},
                             !.nodes_visited = s1.nodes_visited + 1]
        IN  IF top[1] = goal_pos
              THEN [s2 EXCEPT !.found_path = reconstruct_path(s2.came_from, top[1])]
            ELSE IF top[2] >= st.depth_limit THEN s2
            ELSE IF top[1] = NoPos THEN [s2 EXCEPT !.raised = TRUE]
            ELSE dls_neighbors(s2, Reverse(get_neighbors(top[1])), 1)

\* --- the five loops behind one interface
\* The statements of run_<algorithm> before its loop; depth_limit is what
\* run_dls reads from the spinbox.
run_init(algorithm, depth_limit) ==
  LET st == CASE algorithm = "A*"  -> astar_init
              [] algorithm = "BFS" -> bfs_init
              [] algorithm = "DFS" -> dfs_init
              [] algorithm = "UCS" -> ucs_init
              [] algorithm = "DLS" -> dls_init(depth_limit)
  IN  [st EXCEPT !.algorithm = algorithm]

loop_step(st) ==
  CASE st.algorithm = "A*"  -> astar_step(st)
    [] st.algorithm = "BFS" -> bfs_step(st)
    [] st.algorithm = "DFS" -> dfs_step(st)
    [] st.algorithm = "UCS" -> ucs_step(st)
    [] st.algorithm = "DLS" -> dls_step(st)

\* The loop goes on: the frontier is not empty and no "break" was taken.
loop_continues(st) ==
  /\ ~st.raised
  /\ st.found_path = <<>>
  /\ (st.heap # {} \/ st.queue # <<>> \/ st.stack # <<>>)

\* The loop run to its exit, as the callback runs it.
RECURSIVE run_loop(_)
run_loop(st) == IF loop_continues(st) THEN run_loop(loop_step(st)) ELSE st

\* ------------------------------------------------- self, seen as one value
\* The fields of self a handler reads and writes.  A handler is an operator
\* from this record to this record; the action that runs it commits the
\* result (Commit).
World ==
  [grid |-> grid, start_pos |-> start_pos, goal_pos |-> goal_pos,
   robot_pos |-> robot_pos, path |-> path, visited_cells |-> visited_cells,
   frontier_cells |-> frontier_cells, is_running |-> is_running,
   stats |-> stats, animate_visited_index |-> animate_visited_index,
   timers |-> timers]

Commit(w) ==
  /\ grid' = w.grid
  /\ start_pos' = w.start_pos
  /\ goal_pos' = w.goal_pos
  /\ robot_pos' = w.robot_pos
  /\ path' = w.path
  /\ visited_cells' = w.visited_cells
  /\ frontier_cells' = w.frontier_cells
  /\ is_running' = w.is_running
  /\ stats' = w.stats
  /\ animate_visited_index' = w.animate_visited_index
  /\ timers' = w.timers

\* --------------------------------------------------------------- timers
\* A callback scheduled with root.after: a bound method run_<algorithm>
\* ("run"), the lambda of animate_search_step with the came_from, goal and
\* visited_order it closes over ("search_step"), or the lambda of
\* move_robot_along_path with its list ("robot").  shares_path says that
\* the list is still the object self.path names (animate_path hands the
\* same list to both), so that path.pop(0) shortens self.path too.
Timer(kind) ==
  [kind |-> kind, algorithm |-> "", came_from |-> EmptyDict, goal |-> NoPos,
   visited_order |-> <<>>, path |-> <<>>, shares_path |-> FALSE]

\* self.path = <another list>: no pending list is self.path any more.
Unshare(ts) == [i \in 1 .. Len(ts) |-> [ts[i] EXCEPT !.shares_path = FALSE]]

RemoveAt(seq, i) == SubSeq(seq, 1, i - 1) \o SubSeq(seq, i + 1, Len(seq))

\* ------------------------------------------- clear_path and the animation
Overlays == {"PATH", "VISITED", "FRONTIER", "CURRENT"}

clear_path(w) ==
  LET g1 == [c \in DOMAIN w.grid |->
               IF w.grid[c] \in Overlays THEN "EMPTY" ELSE w.grid[c]]
      g2 == IF w.start_pos # NoPos THEN [g1 EXCEPT ![w.start_pos] = "START"] ELSE g1
      g3 == IF w.goal_pos # NoPos THEN [g2 EXCEPT ![w.goal_pos] = "GOAL"] ELSE g2
  IN  [w EXCEPT !.grid = g3, !.path = <<>>, !.visited_cells = {},
                !.frontier_cells = {}, !.robot_pos = NoPos,
                !.timers = Unshare(w.timers)]

\* Mutant of move_robot_along_path: "self.is_running = False" is missing.
move_robot_along_path_unreleased(w, lst, shared) ==
  IF lst = <<>> THEN w
  ELSE [w EXCEPT !.robot_pos = Head(lst),
                 !.path = IF shared THEN Tail(lst) ELSE w.path,
                 !.timers = Append(w.timers,
                              [Timer("robot") EXCEPT !.path = Tail(lst),
                                                     !.shares_path = shared])]

\* move_robot_along_path(path) on the list lst; shared: lst is self.path.
move_robot_along_path(w, lst, shared) ==
  IF lst = <<>> THEN [w EXCEPT !.is_running = FALSE]
  ELSE [w EXCEPT !.robot_pos = Head(lst),
                 !.path = IF shared THEN Tail(lst) ELSE w.path,
                 !.timers = Append(w.timers,
                              [Timer("robot") EXCEPT !.path = Tail(lst),
                                                     !.shares_path = shared])]

\* "for i, (row, col) in enumerate(path): if 0 < i < len(path) - 1: PATH"
mark_path(g, p) ==
  [c \in DOMAIN g |->
     IF \E i \in 2 .. Len(p) - 1 : p[i] = c THEN "PATH" ELSE g[c]]

\* animate_path.  Unpacking None (a path that is [None]) raises before any
\* cell is marked, and draw_robot(None[0], ...) raises when start_pos is
\* None: the callback ends there with what it has written so far.
animate_path(w, came_from, current) ==
  LET p  == reconstruct_path(came_from, current)
      w1 == [w EXCEPT !.path = p, !.timers = Unshare(w.timers)]
  IN  IF \E i \in 1 .. Len(p) : p[i] = NoPos THEN w1
      ELSE
        LET w2 == [w1 EXCEPT !.grid = mark_path(w1.grid, p),
                             !.robot_pos = w1.start_pos]
        IN  IF w2.start_pos = NoPos THEN w2
            ELSE move_robot_along_path(w2, p, TRUE)

\* The cells a loop "for cell in S: if cell != start and cell != goal:
\* grid[cell] = mark" writes.
Markable(w, S) == {c \in S : c # w.start_pos /\ c # w.goal_pos}

mark_cells(g, S, mark) == [c \in DOMAIN g |-> IF c \in S THEN mark ELSE g[c]]

\* animate_search_step(came_from, goal, visited_order) for the callback t.
\* A None among the cells to mark raises at self.grid[cell[0]]; the loop over
\* the set self.frontier_cells has by then marked the cells it met first,
\* some subset named by before.
animate_search_step(w, t, before) ==
  IF w.animate_visited_index < Len(t.visited_order)
  THEN
    LET cell == t.visited_order[w.animate_visited_index + 1]
        one  == Markable(w, {cell})
        fr   == Markable(w, w.frontier_cells)
    IN  IF NoPos \in one THEN w
        ELSE
          LET w1 == [w EXCEPT !.grid = mark_cells(w.grid, one, "VISITED")]
          IN  IF NoPos \in fr
                THEN [w1 EXCEPT !.grid = mark_cells(w1.grid, before \cap (fr \ {NoPos}), "FRONTIER")]
                ELSE [w1 EXCEPT
                        !.grid = mark_cells(w1.grid, fr, "FRONTIER"),
                        !.animate_visited_index = w.animate_visited_index + 1,
                        !.timers = Append(w1.timers, t)]
  ELSE
    LET p == reconstruct_path(t.came_from, t.goal)
    IN  animate_path([w EXCEPT !.stats.path_length = Len(p)], t.came_from, t.goal)

\* animate_search_process: visited_order = list(self.visited_cells), in the
\* order the set yields its members (order is that list).
animate_search_process(w, came_from, goal, order, before) ==
  animate_search_step(
    [w EXCEPT !.animate_visited_index = 0],
    [Timer("search_step") EXCEPT !.came_from = came_from, !.goal = goal,
                                 !.visited_order = order],
    before)

\* The orders a set can be listed in.
RECURSIVE Orders(_)
Orders(S) ==
  IF S = {} THEN {<<>>}
  ELSE UNION {{<<x>> \o o : o \in Orders(S \ {x})} : x \in S}

\* The statements of run_<algorithm> after its loop, for the activation st;
\* show_search is what show_search_var.get() returns.  An activation that
\* raised has written the fields of self its loop updates and nothing more.
run_finish(w, st, show_search, order, before) ==
  LET w1 == [w EXCEPT !.visited_cells = st.visited_cells,
                      !.frontier_cells = st.frontier_cells,
                      !.stats.nodes_visited = st.nodes_visited,
                      !.stats.nodes_explored = st.nodes_explored]
  IN  IF st.raised THEN w1
      ELSE IF st.found_path # <<>>
        THEN IF show_search
               THEN animate_search_process(w1, st.came_from,
                                           st.found_path[Len(st.found_path)],
                                           order, before)
               ELSE animate_path([w1 EXCEPT !.stats.path_length = Len(st.found_path)],
                                 st.came_from, st.found_path[Len(st.found_path)])
        ELSE [w1 EXCEPT !.is_running = FALSE]

\* --------------------------------------------------- the search engine
\* A run of one algorithm on one grid, start and goal, loop iteration by
\* loop iteration: the state find_path leaves (overlays cleared, is_running
\* set, run_<algorithm> scheduled), then the callback up to the exit of its
\* loop.
Layouts(cells) == {o \in SUBSET cells : Cardinality(o) <= MaxObstacles}

\* The grid after the clicks that set the start, then the goal, and toggled
\* the obstacles.
instance_grid(cells, obstacles, s, g) ==
  [c \in cells |-> IF c = g THEN "GOAL"
                   ELSE IF c = s THEN "START"
                   ELSE IF c \in obstacles THEN "OBSTACLE"
                   ELSE "EMPTY"]

NoStats == [algorithm |-> "", path_length |-> 0, nodes_visited |-> 0, nodes_explored |-> 0]

InitSearch ==
  /\ rows \in 1 .. MaxRows
  /\ cols \in 1 .. MaxCols
  /\ \E obstacles \in Layouts(Cells) :
       /\ start_pos \in Cells \ obstacles
       /\ goal_pos \in Cells \ obstacles
       /\ grid = instance_grid(Cells, obstacles, start_pos, goal_pos)
  /\ robot_pos = NoPos
  /\ path = <<>>
  /\ visited_cells = {}
  /\ frontier_cells = {}
  /\ is_running = TRUE
  /\ \E a \in Algorithm :
       /\ stats = [NoStats EXCEPT !.algorithm = a]
       /\ timers = <<[Timer("run") EXCEPT !.algorithm = a]>>
  /\ animate_visited_index = 0
  /\ frame = NoFrame
  /\ pc = "scheduled"

\* root.after(100, self.run_<algorithm>) fires: the statements before the loop.
search_begin ==
  /\ pc = "scheduled"
  /\ \E depth_limit \in 1 .. MaxLimit :
       /\ timers[1].algorithm # "DLS" => depth_limit = 1
       /\ frame' = run_init(timers[1].algorithm,
                            IF timers[1].algorithm = "DLS" THEN depth_limit ELSE 0)
  /\ pc' = "loop"
  /\ Commit([World EXCEPT !.timers = Tail(timers),
                          !.visited_cells = frame'.visited_cells,
                          !.frontier_cells = frame'.frontier_cells,
                          !.stats.nodes_visited = frame'.nodes_visited,
                          !.stats.nodes_explored = frame'.nodes_explored])

\* One iteration of the loop.
search_step ==
  /\ pc = "loop"
  /\ loop_continues(frame)
  /\ frame' = loop_step(frame)
  /\ pc' = "loop"
  /\ Commit([World EXCEPT !.visited_cells = frame'.visited_cells,
                          !.frontier_cells = frame'.frontier_cells,
                          !.stats.nodes_visited = frame'.nodes_visited,
                          !.stats.nodes_explored = frame'.nodes_explored])

\* The loop is left, by "break" with found_path or with the frontier empty
\* (or by an exception): the outcome of the search.  (The statements after
\* the loop belong to run_callback, which runs the whole method.)
search_exit ==
  /\ pc = "loop"
  /\ ~loop_continues(frame)
  /\ pc' = IF frame.raised THEN "raised"
           ELSE IF frame.found_path # <<>> THEN "succeeded" ELSE "failed"
  /\ UNCHANGED <<grid, start_pos, goal_pos, robot_pos, path, visited_cells,
                 frontier_cells, is_running, stats, animate_visited_index,
                 timers, frame>>

NextSearch ==
  \/ search_begin /\ UNCHANGED <<rows, cols>>
  \/ search_step /\ UNCHANGED <<rows, cols>>
  \/ search_exit /\ UNCHANGED <<rows, cols>>

SpecSearch == InitSearch /\ [][NextSearch]_vars

\* The callback is sequential code: once run_<algorithm> has started, its
\* next statement is executed as long as there is one.
SpecSearchFair == SpecSearch /\ WF_vars(NextSearch)

\* ------------------------------------------------- get_neighbors by itself
\* One call of get_neighbors(pos) on a grid of any shape up to NbRows x
\* NbCols whose cells are EMPTY but for at most MaxMarked of them, which
\* carry any other CellType; pos is any cell of the grid.
InitNeighbors ==
  /\ rows \in 1 .. NbRows
  /\ cols \in 1 .. NbCols
  /\ \E marked \in {m \in SUBSET Cells : Cardinality(m) <= MaxMarked} :
       \E mark \in [marked -> CellType \ {"EMPTY"}] :
         grid = [c \in Cells |-> IF c \in marked THEN mark[c] ELSE "EMPTY"]
  /\ start_pos = NoPos
  /\ goal_pos = NoPos
  /\ robot_pos = NoPos
  /\ path = <<>>
  /\ visited_cells = {}
  /\ frontier_cells = {}
  /\ is_running = FALSE
  /\ stats = NoStats
  /\ timers = <<>>
  /\ animate_visited_index = 0
  /\ frame = NoFrame
  /\ pc = "call"

\* neighbors = self.get_neighbors(pos)
call_get_neighbors ==
  /\ pc = "call"
  /\ \E pos \in Cells :
       frame' = [NoFrame EXCEPT !.current = pos, !.neighbors = get_neighbors(pos)]
  /\ pc' = "returned"
  /\ UNCHANGED <<rows, cols, grid, start_pos, goal_pos, robot_pos, path,
                 visited_cells, frontier_cells, is_running, stats,
                 animate_visited_index, timers>>

NextNeighbors == call_get_neighbors

SpecNeighbors == InitNeighbors /\ [][NextNeighbors]_vars

\* The five algorithms on square grids without obstacles, up to OpenSize x
\* OpenSize, from any start to any goal.
InitOpen ==
  /\ rows \in 1 .. OpenSize
  /\ cols = rows
  /\ start_pos \in Cells
  /\ goal_pos \in Cells
  /\ grid = instance_grid(Cells, {}, start_pos, goal_pos)
  /\ robot_pos = NoPos
  /\ path = <<>>
  /\ visited_cells = {}
  /\ frontier_cells = {}
  /\ is_running = TRUE
  /\ \E a \in Algorithm :
       /\ stats = [NoStats EXCEPT !.algorithm = a]
       /\ timers = <<[Timer("run") EXCEPT !.algorithm = a]>>
  /\ animate_visited_index = 0
  /\ frame = NoFrame
  /\ pc = "scheduled"

SpecOpen == InitOpen /\ [][NextSearch]_vars

\* A* and UCS on grids wide enough for a detour along a second row to tie
\* with the straight way on f: one shape, WideRows x WideCols.
InitWide ==
  /\ rows = WideRows
  /\ cols = WideCols
  /\ \E obstacles \in {o \in SUBSET Cells : Cardinality(o) <= WideObstacles} :
       /\ start_pos \in Cells \ obstacles
       /\ goal_pos \in Cells \ obstacles
       /\ grid = instance_grid(Cells, obstacles, start_pos, goal_pos)
  /\ robot_pos = NoPos
  /\ path = <<>>
  /\ visited_cells = {}
  /\ frontier_cells = {}
  /\ is_running = TRUE
  /\ \E a \in {"A*", "UCS"} :
       /\ stats = [NoStats EXCEPT !.algorithm = a]
       /\ timers = <<[Timer("run") EXCEPT !.algorithm = a]>>
  /\ animate_visited_index = 0
  /\ frame = NoFrame
  /\ pc = "scheduled"

SpecWide == InitWide /\ [][NextSearch]_vars

\* A* and BFS on the same grids: a coordinate of the open list of A* is met
\* again at a smaller cost there.
InitDetour ==
  /\ rows = WideRows
  /\ cols = WideCols
  /\ \E obstacles \in {o \in SUBSET Cells : Cardinality(o) <= WideObstacles} :
       /\ start_pos \in Cells \ obstacles
       /\ goal_pos \in Cells \ obstacles
       /\ grid = instance_grid(Cells, obstacles, start_pos, goal_pos)
  /\ robot_pos = NoPos
  /\ path = <<>>
  /\ visited_cells = {}
  /\ frontier_cells = {}
  /\ is_running = TRUE
  /\ \E a \in {"A*", "BFS"} :
       /\ stats = [NoStats EXCEPT !.algorithm = a]
       /\ timers = <<[Timer("run") EXCEPT !.algorithm = a]>>
  /\ animate_visited_index = 0
  /\ frame = NoFrame
  /\ pc = "scheduled"

SpecDetour == InitDetour /\ [][NextSearch]_vars

\* ------------------------------------------------------ the event handlers
reset_grid(w) ==
  [w EXCEPT !.grid = [c \in DOMAIN w.grid |-> "EMPTY"],
            !.start_pos = NoPos, !.goal_pos = NoPos, !.robot_pos = NoPos,
            !.path = <<>>, !.timers = Unshare(w.timers),
            !.visited_cells = {}, !.frontier_cells = {},
            !.is_running = FALSE]

\* add_random_obstacles; picked are the cells where random.random() fell
\* below the density.
add_random_obstacles(w, picked) ==
  LET w1 == clear_path(w)
  IN  [w1 EXCEPT !.grid = [c \in DOMAIN w1.grid |->
                             IF w1.grid[c] = "EMPTY" /\ c \in picked
                               THEN "OBSTACLE" ELSE w1.grid[c]]]

empty_cells(w) == {c \in DOMAIN w.grid : w.grid[c] = "EMPTY"}

\* random_start_goal; s and g are the cells the two random indices select
\* (the second index is redrawn until it differs from the first).
random_start_goal(w, s, g) ==
  LET w1 == clear_path(w)
  IN  IF Cardinality(empty_cells(w1)) < 2 THEN w1
      ELSE [w1 EXCEPT !.start_pos = s, !.goal_pos = g,
                      !.grid = [[w1.grid EXCEPT ![s] = "START"] EXCEPT ![g] = "GOAL"]]

\* on_canvas_click at the cell (row, col) the event's pixel falls in.
on_canvas_click(w, row, col) ==
  IF w.is_running THEN w
  ELSE IF ~(0 <= row /\ row < rows /\ 0 <= col /\ col < cols) THEN w
  ELSE IF w.start_pos = NoPos
    THEN [w EXCEPT !.start_pos = <<row, col>>, !.grid[<<row, col>>] = "START"]
  ELSE IF w.goal_pos = NoPos
    THEN [w EXCEPT !.goal_pos = <<row, col>>, !.grid[<<row, col>>] = "GOAL"]
  ELSE IF w.grid[<<row, col>>] = "EMPTY"
    THEN [w EXCEPT !.grid[<<row, col>>] = "OBSTACLE"]
  ELSE IF w.grid[<<row, col>>] = "OBSTACLE"
    THEN [w EXCEPT !.grid[<<row, col>>] = "EMPTY"]
  ELSE w

\* Mutant of on_canvas_drag: the EMPTY test is missing.
on_canvas_drag_any_cell(w, row, col) ==
  IF w.is_running THEN w
  ELSE IF ~(0 <= row /\ row < rows /\ 0 <= col /\ col < cols) THEN w
  ELSE [w EXCEPT !.grid[<<row, col>>] = "OBSTACLE"]

on_canvas_drag(w, row, col) ==
  IF w.is_running THEN w
  ELSE IF ~(0 <= row /\ row < rows /\ 0 <= col /\ col < cols) THEN w
  ELSE IF w.grid[<<row, col>>] = "EMPTY"
    THEN [w EXCEPT !.grid[<<row, col>>] = "OBSTACLE"]
  ELSE w

\* Mutant of find_path: the test of start_pos and goal_pos is missing.
find_path_unchecked(w, algorithm) ==
  IF w.is_running THEN w
  ELSE LET w1 == clear_path(w)
       IN  [w1 EXCEPT !.is_running = TRUE,
                      !.stats.algorithm = algorithm,
                      !.timers = Append(w1.timers,
                                   [Timer("run") EXCEPT !.algorithm = algorithm])]

\* find_path; algorithm is what algorithm_var.get() returns.
find_path(w, algorithm) ==
  IF w.start_pos = NoPos \/ w.goal_pos = NoPos THEN w
  ELSE IF w.is_running THEN w
  ELSE LET w1 == clear_path(w)
       IN  [w1 EXCEPT !.is_running = TRUE,
                      !.stats.algorithm = algorithm,
                      !.timers = Append(w1.timers,
                                   [Timer("run") EXCEPT !.algorithm = algorithm])]

\* --------------------------------------------------------- the application
\* The window after __init__ (which ends with reset_grid), then any sequence
\* of button presses, canvas events and timer callbacks.  The grid is
\* UIRows x UICols.  Save Layout writes a file and no field of self; Load
\* Layout, which replaces rows, cols, grid, start_pos and goal_pos by the
\* content of a file, is not among the operations.  Find Path is pressed
\* while fewer than MaxTimers callbacks are pending.
Init ==
  /\ rows = UIRows
  /\ cols = UICols
  /\ grid = [c \in Cells |-> "EMPTY"]
  /\ start_pos = NoPos
  /\ goal_pos = NoPos
  /\ robot_pos = NoPos
  /\ path = <<>>
  /\ visited_cells = {}
  /\ frontier_cells = {}
  /\ is_running = FALSE
  /\ stats = NoStats
  /\ animate_visited_index = 0
  /\ timers = <<>>
  /\ frame = NoFrame
  /\ pc = "idle"

\* The cell an event's pixel falls in; a pixel outside the canvas gives a
\* row or column outside the grid (rows and cols stand for those).
EventRows == 0 .. rows
EventCols == 0 .. cols

Idle == pc = "idle" /\ UNCHANGED <<rows, cols, frame, pc>>

press_reset_grid == Idle /\ Commit(reset_grid(World))

press_random_obstacles ==
  /\ Idle
  /\ \E picked \in SUBSET Cells : Commit(add_random_obstacles(World, picked))

press_clear_path == Idle /\ Commit(clear_path(World))

press_random_start_goal ==
  /\ Idle
  /\ LET e == empty_cells(clear_path(World))
     IN  IF Cardinality(e) < 2
           THEN Commit(random_start_goal(World, NoPos, NoPos))
           ELSE \E s \in e, g \in e :
                  s # g /\ Commit(random_start_goal(World, s, g))

canvas_click ==
  /\ Idle
  /\ \E row \in EventRows, col \in EventCols :
       Commit(on_canvas_click(World, row, col))

canvas_drag ==
  /\ Idle
  /\ \E row \in EventRows, col \in EventCols :
       Commit(on_canvas_drag(World, row, col))

press_find_path ==
  /\ Idle
  /\ Len(timers) < MaxTimers
  /\ \E algorithm \in Algorithm : Commit(find_path(World, algorithm))

\* The timers root.after(100, self.run_<algorithm>) fire in the order they
\* were set; an animation timer's delay follows the speed scale, so it may
\* fire before or after any other chain's timer.
MayFire(i) ==
  /\ i \in 1 .. Len(timers)
  /\ timers[i].kind = "run" => \A j \in 1 .. i - 1 : timers[j].kind # "run"

\* The subsets of frontier cells a raising loop may have marked.
Befores(w) ==
  IF NoPos \in Markable(w, w.frontier_cells)
    THEN SUBSET (Markable(w, w.frontier_cells) \ {NoPos})
    ELSE {{}}

\* run_<algorithm> fires: the whole method.
run_callback ==
  /\ Idle
  /\ \E i \in 1 .. Len(timers) :
       /\ MayFire(i)
       /\ timers[i].kind = "run"
       /\ \E depth_limit \in 1 .. MaxLimit, show_search \in BOOLEAN :
            /\ timers[i].algorithm # "DLS" => depth_limit = 1
            /\ LET st == run_loop(run_init(timers[i].algorithm,
                            IF timers[i].algorithm = "DLS" THEN depth_limit ELSE 0))
                   w0 == [World EXCEPT !.timers = RemoveAt(timers, i)]
                   w1 == [w0 EXCEPT !.frontier_cells = st.frontier_cells]
               IN  \E order \in Orders(st.visited_cells), before \in Befores(w1) :
                     Commit(run_finish(w0, st, show_search, order, before))

\* The lambda of animate_search_step fires.
search_step_callback ==
  /\ Idle
  /\ \E i \in 1 .. Len(timers) :
       /\ timers[i].kind = "search_step"
       /\ LET w0 == [World EXCEPT !.timers = RemoveAt(timers, i)]
          IN  \E before \in Befores(w0) :
                Commit(animate_search_step(w0, timers[i], before))

\* The lambda of move_robot_along_path fires.
robot_callback ==
  /\ Idle
  /\ \E i \in 1 .. Len(timers) :
       /\ timers[i].kind = "robot"
       /\ Commit(move_robot_along_path(
                   [World EXCEPT !.timers = RemoveAt(timers, i)],
                   timers[i].path, timers[i].shares_path))

Next ==
  \/ press_reset_grid
  \/ press_random_obstacles
  \/ press_clear_path
  \/ press_random_start_goal
  \/ canvas_click
  \/ canvas_drag
  \/ press_find_path
  \/ run_callback
  \/ search_step_callback
  \/ robot_callback

Spec == Init /\ [][Next]_vars

\* A callback scheduled with root.after fires when its delay has passed:
\* weak fairness of each kind of callback.  (That of run_callback and of
\* search_step_callback is written out, a callback being enabled exactly
\* while one of its kind is pending.)
Pending(kind) == \E i \in 1 .. Len(timers) : timers[i].kind = kind

TimersFire ==
  /\ WF_vars(robot_callback)
  /\ []<>(~Pending("run")) \/ []<><<run_callback>>_vars
  /\ []<>(~Pending("search_step")) \/ []<><<search_step_callback>>_vars

SpecFair == Spec /\ TimersFire

\* The application on a grid of RaceRows x RaceCols, where Find Path is also
\* pressed while a callback of an earlier run is pending (fewer than
\* MaxPending of them).
InitRace ==
  /\ rows = RaceRows
  /\ cols = RaceCols
  /\ grid = [c \in Cells |-> "EMPTY"]
  /\ start_pos = NoPos
  /\ goal_pos = NoPos
  /\ robot_pos = NoPos
  /\ path = <<>>
  /\ visited_cells = {}
  /\ frontier_cells = {}
  /\ is_running = FALSE
  /\ stats = NoStats
  /\ animate_visited_index = 0
  /\ timers = <<>>
  /\ frame = NoFrame
  /\ pc = "idle"

press_find_path_again ==
  /\ Idle
  /\ Len(timers) < MaxPending
  /\ \E algorithm \in Algorithm : Commit(find_path(World, algorithm))

NextRace ==
  \/ press_reset_grid
  \/ press_random_obstacles
  \/ press_clear_path
  \/ press_random_start_goal
  \/ canvas_click
  \/ canvas_drag
  \/ press_find_path_again
  \/ run_callback
  \/ search_step_callback
  \/ robot_callback

SpecRace == InitRace /\ [][NextRace]_vars

\* The application used one run at a time: the user waits until no callback
\* is pending before the next button press or canvas event.
Quiet == timers = <<>>

NextSolo ==
  \/ Quiet /\ press_reset_grid
  \/ Quiet /\ press_random_obstacles
  \/ Quiet /\ press_clear_path
  \/ Quiet /\ press_random_start_goal
  \/ Quiet /\ canvas_click
  \/ Quiet /\ canvas_drag
  \/ Quiet /\ press_find_path
  \/ run_callback
  \/ search_step_callback
  \/ robot_callback

SpecSolo == Init /\ [][NextSolo]_vars

\* ================================================================ claims
\* What the claims speak of, stated without the algorithms.
Free(c) == InBounds(c) /\ grid[c] # "OBSTACLE"

Adjacent(a, b) == Abs(a[1] - b[1]) + Abs(a[2] - b[2]) = 1

\* The four positions one move from b, on the grid or not.
Around(b) == {<<b[1] - 1, b[2]>>, <<b[1], b[2] + 1>>,
              <<b[1] + 1, b[2]>>, <<b[1], b[2] - 1>>}

\* The cells of R and the free cells one move from a cell of R.
Grown(R) == R \cup UNION {{c \in Around(b) : Free(c)} : b \in R}

\* The cells within k moves of the cells of S, through free cells.  (Each
\* level is bound by a quantifier, and membership is asked by enumeration,
\* so that TLC computes each level once.)
RECURSIVE Within(_, _)
Within(S, k) ==
  IF k = 0 THEN S
  ELSE UNION {Grown(R) : R \in {Within(S, k - 1)}}

IsWithin(s, g, k) == \E c \in Within({s}, k) : c = g

Reachable(s, g) == IsWithin(s, g, rows * cols)

\* The least number of moves from s to g (for g reachable from s).
Distance(s, g) == CHOOSE k \in 0 .. rows * cols :
                    /\ IsWithin(s, g, k)
                    /\ \A j \in 0 .. k - 1 : ~IsWithin(s, g, j)

Finished == pc \in {"succeeded", "failed", "raised"}

\* The path the other algorithm returns on the same grid, start and goal.
PathOf(algorithm) == run_loop(run_init(algorithm, 0)).found_path

IsPath(p) ==
  /\ Len(p) >= 1
  /\ p[1] = start_pos
  /\ p[Len(p)] = goal_pos
  /\ \A i \in 1 .. Len(p) - 1 : Adjacent(p[i], p[i + 1])
  /\ \A i \in 1 .. Len(p) : Free(p[i])
  /\ \A i, j \in 1 .. Len(p) : i # j => p[i] # p[j]

\* C1: whenever a run of any of the five algorithms succeeds, the
\* reconstructed path starts at the start, ends at the goal, moves between
\* 4-adjacent cells, stays in bounds and off OBSTACLE cells, and repeats no
\* cell.
C1_PathIsValid == pc = "succeeded" => IsPath(frame.found_path)

C1_Witness ==
  /\ pc = "succeeded"
  /\ frame.algorithm = "DFS"
  /\ Len(frame.found_path) >= 5
  /\ \E c \in Cells : grid[c] = "OBSTACLE"

\* C2: where the goal is reachable, run_bfs returns a path with the least
\* possible number of cells (shortest distance + 1), never longer than the
\* path run_dfs returns on the same grid.
C2_BfsShortest ==
  (Finished /\ frame.algorithm = "BFS" /\ Reachable(start_pos, goal_pos)) =>
    /\ pc = "succeeded"
    /\ Len(frame.found_path) = Distance(start_pos, goal_pos) + 1
    /\ Len(frame.found_path) <= Len(PathOf("DFS"))

C2_Witness ==
  /\ pc = "succeeded"
  /\ frame.algorithm = "BFS"
  /\ Len(frame.found_path) >= 3
  /\ Len(frame.found_path) < Len(PathOf("DFS"))

\* C3: where a path exists, the path run_astar returns is never longer than
\* the path run_ucs returns on the same grid, start and goal.
C3_AstarNotLongerThanUcs ==
  (pc = "succeeded" /\ frame.algorithm = "A*") =>
    Len(frame.found_path) <= Len(PathOf("UCS"))

\* C4: where a path exists, run_ucs returns a path with exactly as many
\* cells as the path run_bfs returns.
C4_UcsAsBfs ==
  (Finished /\ frame.algorithm = "UCS" /\ Reachable(start_pos, goal_pos)) =>
    /\ pc = "succeeded"
    /\ Len(frame.found_path) = Len(PathOf("BFS"))

C4_Witness ==
  /\ pc = "succeeded"
  /\ frame.algorithm = "UCS"
  /\ Len(frame.found_path) >= 4
  /\ Len(frame.found_path) = Len(PathOf("BFS"))
  /\ \E c \in Cells : grid[c] = "OBSTACLE"

\* C5: a run of A*, BFS, DFS or UCS ends in success exactly when the goal
\* is reachable from the start through free cells; otherwise it ends with
\* the frontier exhausted, in the "no path found" outcome.
C5_SuccessIffReachable ==
  (Finished /\ frame.algorithm \in {"A*", "BFS", "DFS", "UCS"}) =>
    /\ (pc = "succeeded") <=> Reachable(start_pos, goal_pos)
    /\ pc # "succeeded" =>
         /\ pc = "failed"
         /\ frame.heap = {} /\ frame.queue = <<>> /\ frame.stack = <<>>
         /\ frame.found_path = <<>>

C5_Witness ==
  /\ pc = "failed"
  /\ frame.algorithm = "A*"
  /\ ~Reachable(start_pos, goal_pos)
  /\ frame.nodes_visited >= 2

\* C6: depth-limited search with limit L returns a path whenever the
\* shortest path from start to goal has at most L + 1 cells.
C6_DlsFindsPathWithinLimit ==
  (Finished /\ frame.algorithm = "DLS" /\ Reachable(start_pos, goal_pos)
     /\ Distance(start_pos, goal_pos) <= frame.depth_limit) =>
    pc = "succeeded"

\* C7: depth-limited search with limit L reports "no path within depth
\* limit", and returns no path, whenever the shortest path has more than
\* L + 1 cells or no path exists.
C7_DlsFailsBeyondLimit ==
  (Finished /\ frame.algorithm = "DLS"
     /\ (Reachable(start_pos, goal_pos) =>
           Distance(start_pos, goal_pos) > frame.depth_limit)) =>
    /\ pc = "failed"
    /\ frame.found_path = <<>>

C7_Witness ==
  /\ pc = "failed"
  /\ frame.algorithm = "DLS"
  /\ Reachable(start_pos, goal_pos)
  /\ Distance(start_pos, goal_pos) = frame.depth_limit + 1
  /\ frame.depth_limit >= 2

\* C8: after any sequence of user operations and callbacks the grid holds at
\* most one START cell and at most one GOAL cell.
StartCells == {c \in Cells : grid[c] = "START"}

GoalCells == {c \in Cells : grid[c] = "GOAL"}

C8_AtMostOneStartAndGoal ==
  Cardinality(StartCells) <= 1 /\ Cardinality(GoalCells) <= 1

\* C9: after any sequence of user operations and callbacks, the cell at
\* start_pos, when start_pos is set, is not OBSTACLE, and neither is the
\* cell at goal_pos when goal_pos is set.
C9_StartAndGoalNeverObstacle ==
  /\ start_pos # NoPos => grid[start_pos] # "OBSTACLE"
  /\ goal_pos # NoPos => grid[goal_pos] # "OBSTACLE"

\* Start and goal are set on different cells, the third cell has been made
\* an OBSTACLE by a drag or by Random Obstacles, and a run on that grid has
\* come to its end.
C9_Witness ==
  /\ start_pos # NoPos /\ goal_pos # NoPos /\ start_pos # goal_pos
  /\ \E c \in Cells : grid[c] = "OBSTACLE"
  /\ stats.algorithm # "" /\ stats.nodes_explored > 0
  /\ ~is_running /\ timers = <<>>

\* C10: get_neighbors(pos) returns exactly the cells up, right, down and left
\* of pos that are in the grid and not OBSTACLE, in that order and once each,
\* whatever other state they carry, and the call changes no field of self.
Side(pos, c) ==
  IF c = <<pos[1] - 1, pos[2]>> THEN 1        \* up
  ELSE IF c = <<pos[1], pos[2] + 1>> THEN 2   \* right
  ELSE IF c = <<pos[1] + 1, pos[2]>> THEN 3   \* down
  ELSE IF c = <<pos[1], pos[2] - 1>> THEN 4   \* left
  ELSE 0

ExactlyTheNeighbors(pos, ns) ==
  /\ \A i \in 1 .. Len(ns) : Side(pos, ns[i]) # 0 /\ Free(ns[i])
  /\ \A c \in Cells : Side(pos, c) # 0 /\ grid[c] # "OBSTACLE"
                         => \E i \in 1 .. Len(ns) : ns[i] = c
  /\ \A i, j \in 1 .. Len(ns) : i < j => Side(pos, ns[i]) < Side(pos, ns[j])

C10_GetNeighbors ==
  /\ [](pc = "returned" => ExactlyTheNeighbors(frame.current, frame.neighbors))
  /\ [][pc' = "returned" =>
          UNCHANGED <<rows, cols, grid, start_pos, goal_pos, robot_pos, path,
                      visited_cells, frontier_cells, is_running, stats,
                      animate_visited_index, timers>>]_vars

\* The call returned three cells for a pos with all four sides in the grid:
\* one side is an OBSTACLE and another carries an overlay.
C10_Witness ==
  /\ pc = "returned"
  /\ Len(frame.neighbors) = 3
  /\ \E c \in Cells : Side(frame.current, c) # 0 /\ grid[c] = "OBSTACLE"
  /\ \E i \in 1 .. 3 : grid[frame.neighbors[i]] \in Overlays
  /\ Cardinality({c \in Cells : Side(frame.current, c) # 0}) = 4

\* C11: find_path, invoked while the start or the goal position is missing,
\* schedules no algorithm, leaves is_running False and leaves the grid, the
\* path, the visited set, the frontier set and the statistics as they were:
\* in every state the application reaches with a position missing,
\* is_running is False and find_path returns self unchanged, whichever
\* algorithm is selected.
C11_FindPathWithoutPositions ==
  start_pos = NoPos \/ goal_pos = NoPos =>
    /\ ~is_running
    /\ \A algorithm \in Algorithm : find_path(World, algorithm) = World

\* The start is set and the goal is not, on a grid that holds an OBSTACLE
\* and after an earlier run left its statistics and a callback pending.
C11_Witness ==
  /\ start_pos # NoPos /\ goal_pos = NoPos
  /\ \E c \in Cells : grid[c] = "OBSTACLE"
  /\ stats.algorithm # "" /\ stats.nodes_explored > 0
  /\ timers # <<>>

\* C12: after every run that ends without a path the statistic path_length
\* is 0, also when an earlier run of the same window found a path: a step
\* in which the callback run_<algorithm> leaves its loop with found_path
\* None ends with stats["path_length"] = 0.
RunEndsWithoutPath ==
  \E i \in 1 .. Len(timers), depth_limit \in 1 .. MaxLimit :
    /\ timers[i].kind = "run"
    /\ MayFire(i)
    /\ LET st == run_loop(run_init(timers[i].algorithm, depth_limit))
       IN  /\ ~st.raised
           /\ st.found_path = <<>>
           /\ World' = run_finish([World EXCEPT !.timers = RemoveAt(timers, i)],
                                  st, FALSE, <<>>, {})

StrictlyBetween(c, s, g) ==
  /\ c # s /\ c # g
  /\ heuristic(s, c) + heuristic(c, g) = heuristic(s, g)

StraightAndClear(s, g) ==
  /\ s[1] = g[1] \/ s[2] = g[2]
  /\ \A c \in Cells : StrictlyBetween(c, s, g) => grid[c] # "OBSTACLE"

C13_StraightLineLength ==
  /\ Finished
  /\ frame.algorithm \in {"BFS", "UCS", "A*"}
  /\ StraightAndClear(start_pos, goal_pos)
  => /\ pc = "succeeded"
     /\ Len(frame.found_path) = heuristic(start_pos, goal_pos) + 1

\* A* has finished on a line of three cells, with OBSTACLE cells off it.
C13_Witness ==
  /\ Finished
  /\ frame.algorithm = "A*"
  /\ StraightAndClear(start_pos, goal_pos)
  /\ heuristic(start_pos, goal_pos) = 2
  /\ \E c \in Cells : grid[c] = "OBSTACLE"

\* C14: when start and goal are 4-adjacent and the grid has no OBSTACLE,
\* each of the five algorithms (DLS with any limit >= 1) returns a path of
\* exactly 2 cells and ends with a visited count of 1 or 2, in whichever
\* direction the goal lies.
NoObstacles == \A c \in Cells : grid[c] # "OBSTACLE"

C14_AdjacentStartAndGoal ==
  Finished /\ Adjacent(start_pos, goal_pos) /\ NoObstacles
  => /\ pc = "succeeded"
     /\ Len(frame.found_path) = 2
     /\ frame.nodes_visited \in {1, 2}

\* C15 (as claimed): when the goal is fully enclosed by OBSTACLE cells, every
\* algorithm ends without a path and its final visited count equals the
\* number of cells reachable from the start, the start included.
Enclosed ==
  /\ start_pos # goal_pos
  /\ \A c \in Cells : Adjacent(c, goal_pos) => grid[c] = "OBSTACLE"

ReachableCells == Within({start_pos}, rows * cols)

C15_EnclosedGoalVisitsAll ==
  Finished /\ Enclosed
  => /\ pc = "failed"
     /\ frame.nodes_visited = Cardinality(ReachableCells)

\* C15 (amended): when the goal is fully enclosed by OBSTACLE cells, every
\* algorithm ends without a path; the final visited count of A*, BFS, DFS
\* and UCS equals the number of cells reachable from the start, the start
\* included; that of DLS is at most that number, and equals it when the
\* depth limit is at least that number minus 1.
C15_EnclosedGoal ==
  Finished /\ Enclosed
  => /\ pc = "failed"
     /\ frame.nodes_visited <= Cardinality(ReachableCells)
     /\ \/ frame.algorithm = "DLS"
           /\ frame.depth_limit < Cardinality(ReachableCells) - 1
        \/ frame.nodes_visited = Cardinality(ReachableCells)

\* DLS has ended on an enclosed goal before it visited every reachable cell.
C15_Witness ==
  /\ Finished /\ Enclosed
  /\ frame.algorithm = "DLS"
  /\ frame.nodes_visited < Cardinality(ReachableCells)

\* C16: on a 5x5 grid with no obstacles, start (0,0) and goal (4,4), run_bfs
\* returns a path of 9 cells and ends with a visited count of 25.
FiveByFive ==
  /\ rows = 5 /\ cols = 5
  /\ NoObstacles
  /\ start_pos = <<0, 0>> /\ goal_pos = <<4, 4>>
  /\ frame.algorithm = "BFS"

C16_BfsFiveByFive ==
  Finished /\ FiveByFive
  => /\ pc = "succeeded"
     /\ Len(frame.found_path) = 9
     /\ frame.nodes_visited = 25

\* run_bfs has left its loop on that grid.
C16_Witness == Finished /\ FiveByFive /\ frame.nodes_explored = 25

\* C17: for each of the five algorithms the explored count at the end of a
\* run equals the number of insertions into the frontier during the run, the
\* insertion of the start included.  Every loop iteration removes exactly one
\* entry, so this is: the statements before the loop leave the count equal
\* to the size of the frontier (the start, inserted once), and each
\* iteration raises the count by the entries it inserted, which is the
\* growth of the frontier plus the one entry removed.
FrontierSize(st) == Cardinality(st.heap) + Len(st.queue) + Len(st.stack)

C17_ExploredCountsInsertions ==
  [][/\ pc = "scheduled" /\ pc' = "loop" /\ ~frame'.raised
        => frame'.nodes_explored = FrontierSize(frame')
     /\ pc = "loop" /\ pc' = "loop" /\ ~frame'.raised
        => frame'.nodes_explored - frame.nodes_explored
             = FrontierSize(frame') - FrontierSize(frame) + 1]_vars

\* C18: for each of the five algorithms the visited count at the end of a
\* run equals the number of coordinates removed from the frontier and
\* accepted (not skipped as already visited), the goal included when the run
\* succeeds: the count is 0 before the loop, and an iteration raises it by 1
\* when the coordinate it removes is accepted and leaves it alone when the
\* coordinate is skipped.
Accepted(st, current) ==
  CASE st.algorithm \in {"DFS", "DLS"} -> current \notin st.closed
    [] st.algorithm = "UCS" -> current \notin st.visited_cells
    [] OTHER -> TRUE

C18_VisitedCountsAccepted ==
  [][/\ pc = "scheduled" /\ pc' = "loop" /\ ~frame'.raised
        => frame'.nodes_visited = 0
     /\ pc = "loop" /\ pc' = "loop" /\ ~frame'.raised
        => frame'.nodes_visited - frame.nodes_visited
             = IF Accepted(frame, frame'.current) THEN 1 ELSE 0]_vars

\* C19: every run of each of the five algorithms terminates: it reaches
\* Succeeded (the goal removed from the frontier) or Failed (the frontier
\* exhausted), although DFS, DLS and UCS may insert one coordinate into the
\* frontier several times.
C19_RunTerminates == <>(pc \in {"succeeded", "failed"})

\* A run of DFS, DLS or UCS has ended after it inserted more entries than
\* there are cells in the grid: some coordinate was inserted more than once.
C19_Witness ==
  /\ pc \in {"succeeded", "failed"}
  /\ frame.algorithm \in {"DFS", "DLS", "UCS"}
  /\ frame.nodes_explored > rows * cols

\* C20: in run_dfs and run_dls, after a node is expanded and has at least
\* one unvisited neighbour, the next node accepted as visited is that node's
\* first unvisited neighbour in up/right/down/left order: an iteration that
\* pushes leaves that neighbour, unvisited, on top of the stack, and an
\* iteration that finds an unvisited coordinate on top of the stack accepts
\* it.
StackTop(st) ==
  IF st.algorithm = "DLS" THEN st.stack[Len(st.stack)][1]
  ELSE st.stack[Len(st.stack)]

UnvisitedNeighbors(st) ==
  {c \in Cells : Side(st.current, c) # 0 /\ grid[c] # "OBSTACLE"
                   /\ c \notin st.closed}

FirstUnvisitedOnTop(st) ==
  /\ StackTop(st) \in UnvisitedNeighbors(st)
  /\ \A c \in UnvisitedNeighbors(st) :
       Side(st.current, StackTop(st)) <= Side(st.current, c)

StackLoopStep ==
  pc = "loop" /\ pc' = "loop" /\ frame.algorithm \in {"DFS", "DLS"}

C20_FirstUnvisitedNeighborNext ==
  [][/\ StackLoopStep /\ Len(frame'.stack) >= Len(frame.stack)
        => FirstUnvisitedOnTop(frame')
     /\ StackLoopStep /\ StackTop(frame) \notin frame.closed
        => /\ frame'.current = StackTop(frame)
           /\ frame'.current \in frame'.closed
           /\ frame'.nodes_visited = frame.nodes_visited + 1]_vars

\* An expansion has left a right, down or left neighbour on top of the
\* stack, the cell above the expanded one being visited already.
C20_Witness ==
  /\ pc = "loop"
  /\ frame.algorithm \in {"DFS", "DLS"}
  /\ frame.nodes_visited >= 3
  /\ frame.stack # <<>>
  /\ FirstUnvisitedOnTop(frame)
  /\ Side(frame.current, StackTop(frame)) >= 2
  /\ \E c \in frame.closed : Side(frame.current, c) = 1

\* C21: at every step of every algorithm's run the start has no entry in
\* came_from, and following came_from from any coordinate that has an entry
\* reaches the start within as many steps as the grid has cells (no cycle);
\* the path of a succeeded run begins at the start.
RECURSIVE Ancestor(_, _, _)
Ancestor(came_from, c, k) ==
  IF k = 0 \/ c \notin DOMAIN came_from THEN c
  ELSE Ancestor(came_from, came_from[c], k - 1)

LeadsToStart(came_from, c) == Ancestor(came_from, c, rows * cols) = start_pos

C21_CameFromLeadsToStart ==
  pc \in {"loop", "succeeded", "failed"} =>
    /\ start_pos \notin DOMAIN frame.came_from
    /\ \A c \in DOMAIN frame.came_from : LeadsToStart(frame.came_from, c)
    /\ pc = "succeeded" => frame.found_path[1] = start_pos

\* A run of DFS has succeeded with a path of at least three cells and with
\* entries in came_from for coordinates that are not on the path.
C21_Witness ==
  /\ pc = "succeeded"
  /\ frame.algorithm = "DFS"
  /\ Len(frame.found_path) >= 3
  /\ Cardinality(DOMAIN frame.came_from) > Len(frame.found_path)

\* C22: in run_dls with limit L no entry of the stack ever carries a depth
\* greater than L; an iteration that pops a coordinate at depth L pushes
\* nothing and records no predecessor; a path returned has at most L + 1
\* cells, and as many cells as the depth at which the goal was popped plus 1.
DlsRuns == frame.algorithm = "DLS" /\ pc \in {"loop", "succeeded", "failed"}

C22_DlsDepth ==
  /\ [](DlsRuns =>
          /\ \A i \in 1 .. Len(frame.stack) :
               frame.stack[i][2] <= frame.depth_limit
          /\ pc = "succeeded" =>
               /\ Len(frame.found_path) = frame.depth + 1
               /\ Len(frame.found_path) <= frame.depth_limit + 1)
  /\ [][DlsRuns /\ pc = "loop" /\ pc' = "loop"
          /\ frame'.depth = frame.depth_limit
        => /\ Len(frame'.stack) = Len(frame.stack) - 1
           /\ frame'.came_from = frame.came_from
           /\ frame'.nodes_explored = frame.nodes_explored]_vars

\* run_dls has returned a path whose goal was popped at the depth limit,
\* after it popped, and did not expand, another coordinate at that depth.
C22_Witness ==
  /\ pc = "succeeded"
  /\ frame.algorithm = "DLS"
  /\ frame.depth_limit >= 2
  /\ frame.depth = frame.depth_limit
  /\ frame.nodes_visited > Len(frame.found_path)

\* C23: in run_bfs no coordinate is enqueued more than once during a run:
\* every coordinate in the queue is in visited and is there once, visited
\* only grows, and an iteration appends only coordinates that were not in
\* visited.  In run_astar no coordinate is in the open list more than once
\* at a time, no coordinate of the open list is closed, closed_set only
\* grows, and an iteration pushes no closed coordinate.
Running(algorithm) ==
  frame.algorithm = algorithm /\ pc \in {"loop", "succeeded", "failed"}

LoopStep(algorithm) ==
  frame.algorithm = algorithm /\ pc = "loop" /\ pc' = "loop"

C23_NoDuplicateInsertion ==
  /\ [](Running("BFS") =>
          /\ \A i \in 1 .. Len(frame.queue) : frame.queue[i] \in frame.closed
          /\ \A i, j \in 1 .. Len(frame.queue) :
               i # j => frame.queue[i] # frame.queue[j])
  /\ [][LoopStep("BFS") =>
          /\ frame.closed \subseteq frame'.closed
          /\ SubSeq(frame'.queue, 1, Len(frame.queue) - 1) = Tail(frame.queue)
          /\ \A i \in Len(frame.queue) .. Len(frame'.queue) :
               frame'.queue[i] \notin frame.closed]_vars
  /\ [](Running("A*") =>
          /\ \A a, b \in frame.heap : a[2] = b[2] => a = b
          /\ \A a \in frame.heap : a[2] \notin frame.closed)
  /\ [][LoopStep("A*") =>
          /\ frame.closed \subseteq frame'.closed
          /\ \A a \in frame'.heap \ frame.heap :
               a[2] \notin frame'.closed /\ ~InOpenList(frame.heap, a[2])]_vars

\* The open list of run_astar holds a coordinate under a priority that is
\* not its f_score any more: the coordinate was met again at a smaller cost
\* while it was in the list, and was not pushed again.
C23_Witness ==
  /\ pc = "loop"
  /\ frame.algorithm = "A*"
  /\ \E a \in frame.heap : a[2] # start_pos /\ a[1] > frame.f_score[a[2]]

\* C24: from the moment find_path sets is_running until the run and its
\* animation have finished (is_running is set and a callback is pending), no
\* user operation (click, drag, Reset Grid, Random Obstacles, Clear Path,
\* Random Start/Goal) changes the OBSTACLE cells of the grid, start_pos or
\* goal_pos.
ObstacleCells == {c \in Cells : grid[c] = "OBSTACLE"}

RunInFlight == is_running /\ timers # <<>>

UserOperation ==
  \/ canvas_click
  \/ canvas_drag
  \/ press_reset_grid
  \/ press_random_obstacles
  \/ press_clear_path
  \/ press_random_start_goal

C24_GridOwnedDuringRun ==
  [][RunInFlight /\ UserOperation
       => /\ ObstacleCells' = ObstacleCells
          /\ start_pos' = start_pos
          /\ goal_pos' = goal_pos]_vars

\* C25: at most one run is in flight at any time: find_path schedules a
\* search only when no callback of an earlier run (run_<algorithm>, the
\* search animation, the robot animation) is pending.
SchedulesSearch ==
  \E algorithm \in Algorithm :
    timers' = Append(Unshare(timers), [Timer("run") EXCEPT !.algorithm = algorithm])

C25_OneRunInFlight == [][SchedulesSearch => timers = <<>>]_vars

\* C26: every run started by find_path eventually releases the running
\* state: as long as scheduled callbacks keep firing, is_running, once set,
\* becomes False again, when no path is found and when a path is found and
\* the search and robot animations play to the end.
C26_RunningReleased == is_running ~> ~is_running

\* A run that found a path of three cells has played its search animation
\* and its robot animation to the end and has released is_running.
C26_Witness ==
  /\ ~is_running
  /\ timers = <<>>
  /\ goal_pos # NoPos
  /\ robot_pos = goal_pos
  /\ stats.path_length = 3
  /\ animate_visited_index > 0
  /\ \E c \in Cells : grid[c] = "PATH"

\* C27: a completed run followed by clear_path restores the grid: every cell
\* that was EMPTY, OBSTACLE, START or GOAL before find_path has the same
\* state afterwards.  In steps: find_path changes no such cell; no callback
\* of the run overwrites an OBSTACLE, START or GOAL cell, and an EMPTY cell
\* stays EMPTY or takes an overlay (VISITED, FRONTIER, PATH, CURRENT);
\* clear_path turns every overlay into EMPTY and changes no other cell.
Marks == {"OBSTACLE", "START", "GOAL"}

KeepsMarks == \A c \in Cells : grid[c] \in Marks => grid'[c] = grid[c]

KeepsEmpty == \A c \in Cells : grid[c] = "EMPTY" => grid'[c] = "EMPTY"

OverlaysOnEmpty ==
  \A c \in Cells : grid[c] = "EMPTY" => grid'[c] \in Overlays \cup {"EMPTY"}

OverlaysRemoved == \A c \in Cells : grid'[c] \notin Overlays

C27_ClearPathRestoresGrid ==
  [][/\ timers # <<>> => KeepsMarks /\ OverlaysOnEmpty
     /\ Quiet /\ press_find_path => KeepsMarks /\ KeepsEmpty
     /\ Quiet /\ press_clear_path
          => KeepsMarks /\ KeepsEmpty /\ OverlaysRemoved]_vars

\* C28: for each of the five algorithms, when the search loop finishes,
\* self.visited_cells (the collection animate_search_process replays) holds
\* exactly the coordinates counted in stats["nodes_visited"]: its size
\* equals nodes_visited.
C28_VisitedTraceSize ==
  pc \in {"succeeded", "failed"} =>
    /\ visited_cells = frame.visited_cells
    /\ Cardinality(visited_cells) = stats.nodes_visited

\* C29: after any sequence of canvas clicks, Random Start/Goal, Clear Path
\* and Reset Grid operations, start_pos and goal_pos, when both are set, are
\* different cells.
C29_StartDiffersFromGoal ==
  start_pos # NoPos /\ goal_pos # NoPos => start_pos # goal_pos

====
